---- MODULE Spec2Model ----
(***************************************************************************)
(* Model of the scoring and size-compatibility engine of the Hugging Face  *)
(* CLI (src/src/scorer.py), of the URL classifier (src/src/url.py), of the *)
(* reporting loop (src/src/main.py) and of the Logger                      *)
(* (src/src/log/logger.py).                                                *)
(*                                                                         *)
(* Number representation.  The program computes with Python floats.        *)
(*   - a score, max_score, net_score or percentage x is the integer        *)
(*     1000 * x (2.0 is 2000, 0.5 is 500, 10.0 is 10000); every value the  *)
(*     scorer produces is a multiple of 0.5, so sums, min and the division *)
(*     by 10.0 are exact both in the doubles and here;                     *)
(*   - a size fitness (rounded to 2 decimals by the code) is the integer   *)
(*     100 * x, in 0..100;                                                 *)
(*   - a size in MB is an integer number of MB.                            *)
(***************************************************************************)
EXTENDS Integers, Sequences, FiniteSets, TLC

VARIABLES
    pc,            \* position of the running operation in the current specification
    model_size_mb, \* argument of calculate_size_score
    size_score,    \* the map calculate_size_score returned
    url,           \* argument of score_url: the link
    category,      \* argument of score_url: the UrlCategory
    name,          \* the identifier the scorer's regex extracted (match.group)
    requests,      \* the api urls make_request was called with, in order
    data,          \* what make_request returned to the scorer
    result,        \* the ScoreResult score_url returned
    raised,        \* the exception that left score_url, "none" when it returned
    urlFile,       \* the lines of the URL file main is given
    urls,          \* the list of Url parseUrlFile returned
    i,             \* calculate_scores: the index of the next url of the loop
    ndjson_results,\* calculate_scores: the entries collected so far
    totals,        \* calculate_scores: total_score, total_max_score, valid_urls
    scores_ndjson, \* the lines of the file scores.ndjson, NoFile until written
    repository,    \* whether the repository the estimator is given can be cloned
    percent,       \* how the property ScoreResult.percentage ended
    detected,      \* the UrlCategory determine_category returned
    url_obj,       \* the Url object the constructor built
    stdout,        \* the lines printed so far
    http,          \* what the network does with the request of make_request
    environ,       \* os.environ: the variables LOG_FILE and LOG_LEVEL
    loggers,       \* the Logger instances constructed so far
    files,         \* the file system: the directory and the lines of a log file
    calls,         \* the calls of log_info and log_debug made so far
    clock,         \* datetime.now(), in seconds
    config         \* what get_config returned last

vars == <<pc, model_size_mb, size_score, url, category, name, requests, data,
          result, raised, urlFile, urls, i, ndjson_results, totals,
          scores_ndjson, repository, percent, detected, url_obj, stdout, http,
          environ, loggers, files, calls, clock, config>>

sizeVars == <<model_size_mb, size_score>>
scoreVars == <<url, category, name, requests, data, result, raised, repository>>
reportVars == <<urlFile, urls, i, ndjson_results, totals, scores_ndjson>>
urlVars == <<detected, url_obj, stdout>>
logVars == <<environ, loggers, files, calls, clock, config>>
auxVars == <<percent, http, urlVars, logVars>>

----------------------------------------------------------------------------
(* Bounds of the model.                                                    *)

\* sizes -MaxNegSize .. MaxSizeMb are passed to calculate_size_score
MaxNegSize == 3
MaxSizeMb == 50002
\* a link's path holds at most MaxPath symbols
MaxPath == 3
\* the URL file holds at most MaxLines lines
MaxLines == 2
\* a ScoreResult is built with score and max_score from -MaxNegHalves / 2
\* to MaxHalves / 2, in steps of 0.5
MaxNegHalves == 2
MaxHalves == 24
\* log_info and log_debug are called at most MaxCalls times, within the
\* seconds 0 .. MaxClock
MaxCalls == 3
MaxClock == 1

----------------------------------------------------------------------------
(* calculate_size_score, scorer.py 55-94                                   *)

Hardware == {"raspberry_pi", "jetson_nano", "desktop_pc", "aws_server"}

\* a variant of thresholds with the capacities the comments of the code
\* name ("taper to 0 at 1GB+", "4GB+", "20GB+", "100GB+")
thresholds_tapered ==
    [raspberry_pi |-> [min |-> 0, max |-> 1000],
     jetson_nano  |-> [min |-> 0, max |-> 4000],
     desktop_pc   |-> [min |-> 0, max |-> 20000],
     aws_server   |-> [min |-> 0, max |-> 100000]]

\* a variant of thresholds with the capacities of the two small devices
\* exchanged
thresholds_exchanged ==
    [raspberry_pi |-> [min |-> 0, max |-> 500],
     jetson_nano  |-> [min |-> 0, max |-> 200],
     desktop_pc   |-> [min |-> 0, max |-> 5000],
     aws_server   |-> [min |-> 0, max |-> 50000]]

thresholds ==
    [raspberry_pi |-> [min |-> 0, max |-> 200],
     jetson_nano  |-> [min |-> 0, max |-> 500],
     desktop_pc   |-> [min |-> 0, max |-> 5000],
     aws_server   |-> [min |-> 0, max |-> 50000]]

\* The quotients q for which the double computed by 1.0 - x / d, whose exact
\* value would be (q + 0.5) / 100, is rounded up to (q + 1) / 100 by
\* round(score, 2).  round() rounds the exact value of the double, half to
\* even: the double lies above the decimal tie for these q, below it for the
\* others, and on it for q = 12, 37, 62, 87 (0.125, 0.375, 0.625, 0.875), of
\* which the odd ones go up.  The same table results for every denominator
\* the program uses (200, 500, 5000, 50000).
HalfRoundsUp ==
    {0, 1, 2, 3, 4, 5, 13, 14, 15, 16, 17, 18, 25, 26, 27, 28, 29, 30, 37, 38,
     39, 40, 41, 42, 43, 50, 51, 52, 63, 64, 65, 66, 67, 68, 69, 70, 71, 75,
     76, 77, 78, 79, 87, 88, 89, 90, 91, 92, 93}

\* a variant of Round2 that truncates to 2 decimals instead of rounding
Round2Truncating(num, den) == (100 * num) \div den

\* round(num / den, 2) in hundredths, for 0 <= num <= den
Round2(num, den) ==
    LET q == (100 * num) \div den
        r == (100 * num) % den
    IN  IF 2 * r < den THEN q
        ELSE IF 2 * r > den THEN q + 1
        ELSE IF q \in HalfRoundsUp THEN q + 1 ELSE q

\* a variant of HardwareScore without the branch size <= min: the linear
\* formula is applied to sizes below the minimum as well
HardwareScoreNoFloor(size, threshold) ==
    IF size >= threshold.max THEN 0
    ELSE LET num == (threshold.max - threshold.min) - (size - threshold.min)
             den == threshold.max - threshold.min
         IN  Round2(IF num < 0 THEN 0 ELSE num, den)

\* a variant of HardwareScore whose linear part lacks the "1.0 -": the
\* fitness (size - min) / (max - min) rises with the size
HardwareScoreRising(size, threshold) ==
    IF size <= threshold.min THEN 100
    ELSE IF size >= threshold.max THEN 0
    ELSE Round2(size - threshold.min, threshold.max - threshold.min)

\* the body of the loop over thresholds.items(): the fitness of one class
HardwareScore(size, threshold) ==
    IF size <= threshold.min THEN 100
    ELSE IF size >= threshold.max THEN 0
    ELSE \* max(0.0, 1.0 - (size - min) / (max - min)), then round(score, 2)
         LET num == (threshold.max - threshold.min) - (size - threshold.min)
             den == threshold.max - threshold.min
         IN  Round2(IF num < 0 THEN 0 ELSE num, den)

calculate_size_score(size) ==
    [h \in Hardware |-> HardwareScore(size, thresholds[h])]

----------------------------------------------------------------------------
(* Links.  A link is a head literal followed by a path, a sequence of path *)
(* symbols.  The head is one of the literals the regular expressions of    *)
(* url.py and scorer.py look for (or none, or one they reject); a path     *)
(* symbol is a run of characters of one class:                             *)
(*   "datasets", "unknown"  these words (word characters);                 *)
(*   "a"                    another run of word characters \w+;            *)
(*   "-"                    a character that is neither \w nor "/";        *)
(*   "/"                    one slash.                                     *)

HF == "https://huggingface.co/"
GH == "https://github.com/"

Heads ==
    {"", HF, GH,
     "https://githubXcom/",        \* matches github.com only with "." unescaped
     "http://huggingface.co/",     \* not https
     "see https://huggingface.co/",\* the literal, not at the start of the link
     "see https://github.com/"}

PathSymbols == {"datasets", "unknown", "a", "-", "/"}

SeqsUpTo(S, n) == UNION {[1..k -> S] : k \in 0..n}

Paths == SeqsUpTo(PathSymbols, MaxPath)

Links == [head : Heads, path : Paths]

NoLink == [head |-> "", path |-> <<>>]

IsWord(c) == c \in {"datasets", "unknown", "a"}      \* \w+
NonSlash(c) == c # "/"                                \* [^/]+

\* re.search(literal ...): the literal occurs somewhere in the link.  A path
\* holds no ":" "//" or ".", so the literal can only be the end of the head.
SearchesLiteral(link, literal) ==
    link.head \in {literal, "see " \o literal}

\* the end of the longest run of [^/] symbols (nonSlash) or of \w symbols that
\* starts at path[at]; at - 1 when path[at] is not such a symbol
RECURSIVE RunEnd(_, _, _)
RunEnd(path, at, nonSlash) ==
    IF at > Len(path) THEN at - 1
    ELSE IF (IF nonSlash THEN NonSlash(path[at]) ELSE IsWord(path[at]))
         THEN RunEnd(path, at + 1, nonSlash)
         ELSE at - 1

\* where the greedy group ((\w+\/?)+) that starts at path[at] ends: runs of
\* word characters, each followed by at most one slash
RECURSIVE WordGroupEnd(_, _)
WordGroupEnd(path, at) ==
    LET e == RunEnd(path, at, FALSE)
    IN  IF e < at THEN at - 1
        ELSE IF e + 1 <= Len(path) /\ path[e + 1] = "/"
             THEN IF e + 2 <= Len(path) /\ IsWord(path[e + 2])
                  THEN WordGroupEnd(path, e + 2)
                  ELSE e + 1
             ELSE e

NoMatch == [matched |-> FALSE, group1 |-> <<>>]
Match(g) == [matched |-> TRUE, group1 |-> g]

\* re.search(r"https://huggingface\.co/datasets/((\w+\/?)+)", url), scorer.py 302
DatasetNameMatch(link) ==
    LET p == link.path
    IN  IF /\ SearchesLiteral(link, HF)
           /\ Len(p) >= 3 /\ p[1] = "datasets" /\ p[2] = "/" /\ IsWord(p[3])
        THEN Match(SubSeq(p, 3, WordGroupEnd(p, 3)))
        ELSE NoMatch

\* ([^/]+/[^/]+) at the start of the path: two slash-free runs around a slash
TwoSegments(p) ==
    LET e1 == RunEnd(p, 1, TRUE)
        e2 == RunEnd(p, e1 + 2, TRUE)
    IN  IF e1 >= 1 /\ e1 + 1 <= Len(p) /\ p[e1 + 1] = "/" /\ e2 >= e1 + 2
        THEN Match(SubSeq(p, 1, e2))
        ELSE NoMatch

\* a variant of ModelNameMatch whose pattern is ([^/]+): one segment is a name
ModelNameMatchOneSegment(link) ==
    LET e1 == RunEnd(link.path, 1, TRUE)
    IN  IF SearchesLiteral(link, HF) /\ e1 >= 1
        THEN Match(SubSeq(link.path, 1, e1))
        ELSE NoMatch

\* re.search(r"https://huggingface\.co/([^/]+/[^/]+)", url), scorer.py 373
ModelNameMatch(link) ==
    IF SearchesLiteral(link, HF) THEN TwoSegments(link.path) ELSE NoMatch

\* re.search(r"https://github\.com/([^/]+)/([^/]+)", url), scorer.py 448;
\* group1 is f"{owner}/{repo}"
CodeNameMatch(link) ==
    IF SearchesLiteral(link, GH) THEN TwoSegments(link.path) ELSE NoMatch

----------------------------------------------------------------------------
(* JSON values of the metadata.  A field of the fetched object is          *)
(*   Absent    the key is not in the object;                               *)
(*   Null      the key is there with JSON null (Python None);              *)
(*   Num(n)    a number;                                                   *)
(*   Str(n)    a string of n characters;                                   *)
(*   Obj(n)    an object of n keys.                                        *)

Absent == [t |-> "absent", v |-> 0]
Null == [t |-> "null", v |-> 0]
Num(n) == [t |-> "num", v |-> n]
Str(n) == [t |-> "str", v |-> n]
Obj(n) == [t |-> "obj", v |-> n]

\* data.get(key, default)
Get(field, default) == IF field = Absent THEN default ELSE field

\* bool(x), and "if x:"
Truthy(x) ==
    CASE x.t = "num" -> x.v # 0
      [] x.t \in {"str", "obj"} -> x.v > 0
      [] OTHER -> FALSE

\* x > n raises TypeError unless x is a number
Comparable(x) == x.t = "num"

\* What make_request returns: None when the request failed (scorer.py 51-52),
\* else response.json(), any JSON value.  kind says which; f holds the fields
\* of an object ("object" always has some key: it may be one no scorer reads).
FalsyKinds == {"None", "null", "false", "zero", "empty_string", "empty_list",
               "empty_object"}
NonDictKinds == {"true", "number", "string", "list"}

DatasetFields ==
    [downloads : {Absent, Null} \cup
                 {Num(n) : n \in {0, 100, 101, 1000, 1001, 10000, 10001, 15000}},
     likes : {Absent, Null} \cup {Num(n) : n \in {0, 10, 11, 50, 51, 60}},
     description : {Absent, Null, Str(0), Str(9)}]

ModelFields ==
    [downloads : {Absent, Null} \cup
                 {Num(n) : n \in {0, 500, 1000, 1001, 10000, 10001, 100000, 100001}},
     likes : {Absent, Null} \cup {Num(n) : n \in {5, 20, 21, 100, 101}},
     cardData : {Absent, Null, Obj(0), Obj(2)},
     pipeline_tag : {Absent, Null, Str(0), Str(9)}]

CodeFields ==
    [stargazers_count : {Absent, Null} \cup
                        {Num(n) : n \in {0, 10, 11, 100, 101, 1000, 1001}},
     forks_count : {Absent, Null} \cup {Num(n) : n \in {10, 11, 100, 101}},
     description : {Absent, Str(0), Str(9)},
     license : {Absent, Null, Obj(5)},
     language : {Absent, Null, Str(0), Str(6)}]

NoFields == [none |-> Absent]

Responses(Fields) ==
    {[kind |-> k, f |-> NoFields] : k \in FalsyKinds \cup NonDictKinds}
    \cup {[kind |-> "object", f |-> f] : f \in Fields}

NoData == [kind |-> "not requested", f |-> NoFields]

\* make_request, scorer.py 43-52.  What the network does with the request:
\* requests.get raises (no connection, the 10 s timeout, a redirect loop) or
\* returns the final response, of some status and with some body; the body
\* is the text of a JSON value, or no JSON text at all.
StatusCodes == {200, 201, 404, 429, 500, 503}
NoJson == [kind |-> "no json", f |-> NoFields]
Bodies == {[json |-> FALSE, text |-> NoJson]}
          \cup {[json |-> TRUE, text |-> v] :
                   v \in Responses(DatasetFields) \ {[kind |-> "None", f |-> NoFields]}}
GetExceptions == {"ConnectionError", "Timeout", "TooManyRedirects"}
HttpOutcomes ==
    {[get |-> e, status |-> 0, body |-> [json |-> FALSE, text |-> NoJson]] :
        e \in GetExceptions}
    \cup [get : {"response"}, status : StatusCodes, body : Bodies]

\* the None make_request returns from its except clause
RequestFailed == [kind |-> "None", f |-> NoFields]

\* requests.get(url, headers, timeout=10): the response, or the exception
requests_get(h) ==
    IF h.get = "response" THEN [raised |-> "none", response |-> h]
    ELSE [raised |-> h.get, response |-> h]

\* response.raise_for_status(): HTTPError for the statuses 400..599
raise_for_status(response) ==
    IF response.status >= 400 /\ response.status < 600 THEN "HTTPError" ELSE "none"

\* response.json(): the value the body is the text of, or JSONDecodeError
response_json(response) ==
    IF response.body.json
    THEN [raised |-> "none", value |-> response.body.text]
    ELSE [raised |-> "JSONDecodeError", value |-> RequestFailed]

\* the body of the try block of make_request: how it ends
make_request_try(h) ==
    LET got == requests_get(h)
    IN  IF got.raised # "none" THEN [raised |-> got.raised, value |-> RequestFailed]
        ELSE IF raise_for_status(got.response) # "none"
        THEN [raised |-> raise_for_status(got.response), value |-> RequestFailed]
        ELSE response_json(got.response)

\* a variant of make_request without the try and except: exceptions leave it
make_request_uncaught(h) == make_request_try(h)

\* make_request, scorer.py 43-52: "except Exception: return None"
make_request(h) ==
    LET o == make_request_try(h)
    IN  IF o.raised # "none" THEN [raised |-> "none", value |-> RequestFailed]
        ELSE o

\* "if data is None:" where the code has "if not data:"
NotDataOnlyNone(d) == d.kind \in {"None", "null"}

\* "if not data:"
NotData(d) == d.kind \in FalsyKinds

----------------------------------------------------------------------------
(* analyze_model_repository and estimate_model_size, scorer.py 97-157 and  *)
(* 272-296                                                                 *)

Unknown == <<"unknown">>

\* the cloning code is commented out: the initial analysis is returned
analyze_model_repository(model_name, model_type) ==
    [total_size_mb |-> 0, weights_size_mb |-> 0, has_tokenizer |-> FALSE,
     architecture |-> "unknown", error |-> "None"]

\* a variant of estimate_model_size whose default for an unknown name is the
\* 1000 MB of the failed analysis
estimate_model_size_wrong_default(model_name, model_type) ==
    IF model_name = <<>> \/ model_name = Unknown
    THEN 1000
    ELSE LET analysis == analyze_model_repository(model_name, model_type)
         IN  IF analysis.error = "None" THEN analysis.total_size_mb ELSE 1000

estimate_model_size(model_name, model_type) ==
    IF model_name = <<>> \/ model_name = Unknown
    THEN 500
    ELSE LET analysis == analyze_model_repository(model_name, model_type)
         IN  IF analysis.error = "None" THEN analysis.total_size_mb ELSE 1000

----------------------------------------------------------------------------
(* ScoreResult and the three scorers, scorer.py 26-37 and 299-522          *)

Categories == {"DATASET", "MODEL", "CODE", "INVALID"}

\* a variant of ScoreResult with the positional score and max_score exchanged
ScoreResultSwapped(u, c, score, max_score, details) ==
    [url |-> u, category |-> c, score |-> max_score, max_score |-> score,
     details |-> details]

ScoreResult(u, c, score, max_score, details) ==
    [url |-> u, category |-> c, score |-> score, max_score |-> max_score,
     details |-> details]

NoResult == ScoreResult(NoLink, "INVALID", 0 - 1, 0 - 1, [none |-> TRUE])

\* how a call ends: with a ScoreResult, or with an exception
Return(r) == [raised |-> "none", result |-> r]
Raise(e) == [raised |-> e, result |-> NoResult]

Min(a, b) == IF a <= b THEN a ELSE b

\* ---- score_dataset ----

\* a variant of score_dataset_invalid that estimates the size of what the
\* link holds after its host instead of the size of "unknown"
score_dataset_invalid_sized_by_link(u) ==
    LET estimated_size == estimate_model_size(u.path, "dataset")
        size == calculate_size_score(estimated_size)
    IN  ScoreResult(u, "DATASET", 0, 10000,
                    [error |-> "Invalid URL", name |-> Unknown, size_score |-> size])

\* scorer.py 303-312: the name did not parse
score_dataset_invalid(u) ==
    LET estimated_size == estimate_model_size(Unknown, "dataset")
        size == calculate_size_score(estimated_size)
    IN  ScoreResult(u, "DATASET", 0, 10000,
                    [error |-> "Invalid URL", name |-> Unknown, size_score |-> size])

\* scorer.py 318-328: make_request returned nothing
\* a variant of score_dataset_fallback with the fallback score of a model
score_dataset_fallback_as_model(u, dataset_name) ==
    LET estimated_size == estimate_model_size(dataset_name, "dataset")
        size == calculate_size_score(estimated_size)
    IN  ScoreResult(u, "DATASET", 2000, 10000,
                    [name |-> dataset_name, fallback |-> TRUE, size_score |-> size])

score_dataset_fallback(u, dataset_name) ==
    LET estimated_size == estimate_model_size(dataset_name, "dataset")
        size == calculate_size_score(estimated_size)
    IN  ScoreResult(u, "DATASET", 0, 10000,
                    [name |-> dataset_name, fallback |-> TRUE, size_score |-> size])

\* scorer.py 335-349: the rule total of a dataset
\* a variant of dataset_rule_total with >= where the code has >
dataset_rule_total_ge(downloads, likes, has_description) ==
    2000
    + (IF downloads >= 10000 THEN 3000
       ELSE IF downloads >= 1000 THEN 2000
       ELSE IF downloads >= 100 THEN 1000 ELSE 0)
    + (IF likes >= 50 THEN 2000 ELSE IF likes >= 10 THEN 1000 ELSE 0)
    + (IF has_description THEN 2000 ELSE 0)

dataset_rule_total(downloads, likes, has_description) ==
    2000
    + (IF downloads > 10000 THEN 3000
       ELSE IF downloads > 1000 THEN 2000
       ELSE IF downloads > 100 THEN 1000 ELSE 0)
    + (IF likes > 50 THEN 2000 ELSE IF likes > 10 THEN 1000 ELSE 0)
    + (IF has_description THEN 2000 ELSE 0)

\* scorer.py 330-367: data is truthy
score_dataset_rules(u, dataset_name, d) ==
    IF d.kind # "object" THEN Raise("AttributeError")   \* data.get
    ELSE
    LET downloads == Get(d.f.downloads, Num(0))
        likes == Get(d.f.likes, Num(0))
        has_description == Truthy(d.f.description)
    IN  IF ~Comparable(downloads) \/ ~Comparable(likes)
        THEN Raise("TypeError")                         \* None > 10000
        ELSE
        LET score == dataset_rule_total(downloads.v, likes.v, has_description)
            estimated_size == estimate_model_size(dataset_name, "dataset")
            size == calculate_size_score(estimated_size)
        IN  Return(ScoreResult(u, "DATASET", Min(score, 10000), 10000,
                [name |-> dataset_name, downloads |-> downloads,
                 likes |-> likes, has_description |-> has_description,
                 size_score |-> size]))

\* ---- score_model ----

\* a variant of score_model_invalid that returns the fallback result
score_model_invalid_as_fallback(u) ==
    LET estimated_size == estimate_model_size(Unknown, "model")
        size == calculate_size_score(estimated_size)
    IN  ScoreResult(u, "MODEL", 2000, 10000,
                    [name |-> Unknown, fallback |-> TRUE, size_score |-> size])

\* scorer.py 374-383
score_model_invalid(u) ==
    LET estimated_size == estimate_model_size(Unknown, "model")
        size == calculate_size_score(estimated_size)
    IN  ScoreResult(u, "MODEL", 0, 10000,
                    [error |-> "Invalid URL", name |-> Unknown, size_score |-> size])

\* scorer.py 389-398
score_model_fallback(u, model_name) ==
    LET estimated_size == estimate_model_size(model_name, "model")
        size == calculate_size_score(estimated_size)
    IN  ScoreResult(u, "MODEL", 2000, 10000,
                    [name |-> model_name, fallback |-> TRUE, size_score |-> size])

\* scorer.py 406-423
\* a variant of model_rule_total without the bonus of the model card
model_rule_total_no_card(downloads, likes, has_card, has_pipeline_tag) ==
    2000
    + (IF downloads > 100000 THEN 3000
       ELSE IF downloads > 10000 THEN 2000
       ELSE IF downloads > 1000 THEN 1000 ELSE 0)
    + (IF likes > 100 THEN 2000 ELSE IF likes > 20 THEN 1000 ELSE 0)
    + (IF has_pipeline_tag THEN 1000 ELSE 0)

\* a variant of model_rule_total whose bonus for the model card is 3.0
model_rule_total_big_card(downloads, likes, has_card, has_pipeline_tag) ==
    2000
    + (IF downloads > 100000 THEN 3000
       ELSE IF downloads > 10000 THEN 2000
       ELSE IF downloads > 1000 THEN 1000 ELSE 0)
    + (IF likes > 100 THEN 2000 ELSE IF likes > 20 THEN 1000 ELSE 0)
    + (IF has_card THEN 3000 ELSE 0)
    + (IF has_pipeline_tag THEN 1000 ELSE 0)

model_rule_total(downloads, likes, has_card, has_pipeline_tag) ==
    2000
    + (IF downloads > 100000 THEN 3000
       ELSE IF downloads > 10000 THEN 2000
       ELSE IF downloads > 1000 THEN 1000 ELSE 0)
    + (IF likes > 100 THEN 2000 ELSE IF likes > 20 THEN 1000 ELSE 0)
    + (IF has_card THEN 2000 ELSE 0)
    + (IF has_pipeline_tag THEN 1000 ELSE 0)

\* scorer.py 400-442
score_model_rules(u, model_name, d) ==
    IF d.kind # "object" THEN Raise("AttributeError")
    ELSE
    LET downloads == Get(d.f.downloads, Num(0))
        likes == Get(d.f.likes, Num(0))
        has_card == Truthy(d.f.cardData)
        pipeline_tag == Get(d.f.pipeline_tag, Null)
    IN  IF ~Comparable(downloads) \/ ~Comparable(likes)
        THEN Raise("TypeError")
        ELSE
        LET score == model_rule_total(downloads.v, likes.v, has_card,
                                      Truthy(pipeline_tag))
            estimated_size == estimate_model_size(model_name, "model")
            size == calculate_size_score(estimated_size)
        IN  Return(ScoreResult(u, "MODEL", Min(score, 10000), 10000,
                [name |-> model_name, downloads |-> downloads, likes |-> likes,
                 has_model_card |-> has_card, pipeline_tag |-> pipeline_tag,
                 size_score |-> size]))

\* ---- score_code ----

\* scorer.py 449-458
score_code_invalid(u) ==
    LET estimated_size == estimate_model_size(Unknown, "code")
        size == calculate_size_score(estimated_size)
    IN  ScoreResult(u, "CODE", 0, 10000,
                    [error |-> "Invalid URL", name |-> Unknown, size_score |-> size])

\* a variant of score_code_fallback whose details lack the size-fitness map
score_code_fallback_no_size(u, owner_repo) ==
    ScoreResult(u, "CODE", 2000, 10000,
                [name |-> owner_repo, fallback |-> TRUE])

\* scorer.py 464-473
score_code_fallback(u, owner_repo) ==
    LET estimated_size == estimate_model_size(owner_repo, "code")
        size == calculate_size_score(estimated_size)
    IN  ScoreResult(u, "CODE", 2000, 10000,
                    [name |-> owner_repo, fallback |-> TRUE, size_score |-> size])

\* scorer.py 482-502, with "if" where the code has "elif": tiers accumulate
code_rule_total_cumulative(stars, forks, has_description, has_license, has_language) ==
    2000
    + (IF stars > 1000 THEN 3000 ELSE 0)
    + (IF stars > 100 THEN 2000 ELSE 0)
    + (IF stars > 10 THEN 1000 ELSE 0)
    + (IF forks > 100 THEN 1000 ELSE 0)
    + (IF forks > 10 THEN 500 ELSE 0)
    + (IF has_description THEN 2000 ELSE 0)
    + (IF has_license THEN 1000 ELSE 0)
    + (IF has_language THEN 1000 ELSE 0)

\* a variant of code_rule_total without the base score
code_rule_total_no_base(stars, forks, has_description, has_license, has_language) ==
    (IF stars > 1000 THEN 3000
     ELSE IF stars > 100 THEN 2000
     ELSE IF stars > 10 THEN 1000 ELSE 0)
    + (IF forks > 100 THEN 1000 ELSE IF forks > 10 THEN 500 ELSE 0)
    + (IF has_description THEN 2000 ELSE 0)
    + (IF has_license THEN 1000 ELSE 0)
    + (IF has_language THEN 1000 ELSE 0)

\* scorer.py 482-502
code_rule_total(stars, forks, has_description, has_license, has_language) ==
    2000
    + (IF stars > 1000 THEN 3000
       ELSE IF stars > 100 THEN 2000
       ELSE IF stars > 10 THEN 1000 ELSE 0)
    + (IF forks > 100 THEN 1000 ELSE IF forks > 10 THEN 500 ELSE 0)
    + (IF has_description THEN 2000 ELSE 0)
    + (IF has_license THEN 1000 ELSE 0)
    + (IF has_language THEN 1000 ELSE 0)

\* scorer.py 475-522
score_code_rules(u, owner_repo, d) ==
    IF d.kind # "object" THEN Raise("AttributeError")
    ELSE
    LET stars == Get(d.f.stargazers_count, Num(0))
        forks == Get(d.f.forks_count, Num(0))
        has_description == Truthy(d.f.description)
        has_license == Truthy(d.f.license)
        language == Get(d.f.language, Null)
    IN  IF ~Comparable(stars) \/ ~Comparable(forks)
        THEN Raise("TypeError")
        ELSE
        LET score == code_rule_total(stars.v, forks.v, has_description,
                                     has_license, Truthy(language))
            estimated_size == estimate_model_size(owner_repo, "code")
            size == calculate_size_score(estimated_size)
        IN  Return(ScoreResult(u, "CODE", Min(score, 10000), 10000,
                [name |-> owner_repo, stars |-> stars, forks |-> forks,
                 has_description |-> has_description,
                 has_license |-> has_license, language |-> language,
                 size_score |-> size]))

\* ---- score_url ----

\* scorer.py 533-542: the category is none of DATASET, MODEL, CODE
score_url_invalid(u) ==
    LET estimated_size == estimate_model_size(Unknown, "invalid")
        size == calculate_size_score(estimated_size)
    IN  ScoreResult(u, "INVALID", 0, 10000,
                    [error |-> "Invalid category", name |-> Unknown,
                     size_score |-> size])

\* The part of score_url(u, c) that runs before make_request is called: the
\* dispatch on the category and the scorer's regex.  Either the call is over
\* (done, with its result), or make_request is called with api \o name.
Done(r) == [done |-> TRUE, result |-> r, name |-> <<>>, api |-> ""]
Request(api, nm) == [done |-> FALSE, result |-> NoResult, name |-> nm, api |-> api]

score_url_begin(u, c) ==
    IF c = "DATASET" THEN
        LET match == DatasetNameMatch(u)
        IN  IF ~match.matched THEN Done(score_dataset_invalid(u))
            ELSE Request("https://huggingface.co/api/datasets/", match.group1)
    ELSE IF c = "MODEL" THEN
        LET match == ModelNameMatch(u)
        IN  IF ~match.matched THEN Done(score_model_invalid(u))
            ELSE Request("https://huggingface.co/api/models/", match.group1)
    ELSE IF c = "CODE" THEN
        LET match == CodeNameMatch(u)
        IN  IF ~match.matched THEN Done(score_code_invalid(u))
            ELSE Request("https://api.github.com/repos/", match.group1)
    ELSE Done(score_url_invalid(u))

\* The rest of score_url(u, c) once make_request has returned d
score_url_resume(u, c, nm, d) ==
    IF c = "DATASET" THEN
        IF NotData(d) THEN Return(score_dataset_fallback(u, nm))
        ELSE score_dataset_rules(u, nm, d)
    ELSE IF c = "MODEL" THEN
        IF NotData(d) THEN Return(score_model_fallback(u, nm))
        ELSE score_model_rules(u, nm, d)
    ELSE
        IF NotData(d) THEN Return(score_code_fallback(u, nm))
        ELSE score_code_rules(u, nm, d)

\* the JSON values the api of a category is made to answer with
FieldsOf(c) ==
    IF c = "DATASET" THEN DatasetFields
    ELSE IF c = "MODEL" THEN ModelFields ELSE CodeFields

----------------------------------------------------------------------------
(* url.py: determine_category and Url                                      *)

\* re.match(pattern, link): the literal is the start of the link.  The "." of
\* github.com is not escaped in codeRegex and matches any character.
determine_category(link) ==
    LET p == link.path
        words == Len(p) >= 1 /\ IsWord(p[1])                 \* (\w+\/?)+
    IN  IF /\ link.head = HF
           /\ Len(p) >= 3 /\ p[1] = "datasets" /\ p[2] = "/" /\ IsWord(p[3])
        THEN "DATASET"
        ELSE IF link.head = HF /\ words THEN "MODEL"
        ELSE IF link.head \in {GH, "https://githubXcom/"} /\ words THEN "CODE"
        ELSE "INVALID"

\* a variant of Url that determines the category whatever category is given
UrlAlwaysDetermines(link, c) ==
    [link |-> link, category |-> determine_category(link)]

\* Url.__init__(link, category), url.py 34-42: the object built
Url(link, c) ==
    [link |-> link,
     category |-> IF c = "INVALID" THEN determine_category(link) ELSE c]

\* the line f"{link} Invalid URL: Not a dataset, model or code URL"
InvalidUrlMessage(link) ==
    [link |-> link, text |-> " Invalid URL: Not a dataset, model or code URL"]

\* Url.__init__(link, category), url.py 37-40: the lines it prints
UrlPrints(link, c) ==
    IF c = "INVALID" /\ determine_category(link) = "INVALID"
    THEN <<InvalidUrlMessage(link)>>
    ELSE <<>>

----------------------------------------------------------------------------
(* main.py: parseUrlFile and calculate_scores                              *)

\* the empty line of a URL file
EmptyLine == NoLink

\* parseUrlFile, main.py 12-22: a Url for every line that is not empty
RECURSIVE parseUrlFile(_)
parseUrlFile(lines) ==
    IF lines = <<>> THEN <<>>
    ELSE IF Head(lines) = EmptyLine THEN parseUrlFile(Tail(lines))
    ELSE <<Url(Head(lines), "INVALID")>> \o parseUrlFile(Tail(lines))

\* (a / b) * 100 on floats, in thousandths (a and b being in thousandths):
\* the quotient to three decimals, or ZeroDivisionError when b is 0
TrueDivTimes100(a, b) ==
    IF b = 0 THEN [raised |-> "ZeroDivisionError", value |-> 0]
    ELSE [raised |-> "none", value |-> (a * 100000) \div b]

\* a variant of percentage_outcome that divides whatever max_score is
percentage_outcome_unguarded(r) == TrueDivTimes100(r.score, r.max_score)

\* ScoreResult.percentage, scorer.py 34-37: how reading the property ends
percentage_outcome(r) ==
    IF r.max_score > 0 THEN TrueDivTimes100(r.score, r.max_score)
    ELSE [raised |-> "none", value |-> 0]

\* ScoreResult.percentage, scorer.py 34-37: the value of the property
percentage(r) == percentage_outcome(r).value

\* score_url keeping the last response of a category and using it again
score_url_cached(u, c, d) ==
    LET b == score_url_begin(u, c)
        kept == IF data # NoData /\ category = c THEN data ELSE d
    IN  IF b.done THEN Return(b.result) ELSE score_url_resume(u, c, b.name, kept)

\* score_url(u, c) as one call, d being what make_request returns if called
score_url(u, c, d) ==
    LET b == score_url_begin(u, c)
    IN  IF b.done THEN Return(b.result) ELSE score_url_resume(u, c, b.name, d)

\* main.py 49-59: the entry of a url of category INVALID
invalid_entry(u, latency) ==
    [name |-> Unknown, category |-> "INVALID", net_score |-> 0,
     net_score_latency |-> latency, url |-> u.link,
     error |-> "Invalid URL - Not a dataset, model, or code URL"]

\* details.get(key, default)
DetailOr(details, key, default) ==
    IF key \in DOMAIN details THEN details[key] ELSE default

\* main.py 113-157: the entry of a url whose score is positive
ndjson_entry(u, r, latency) ==
    LET common ==
            [name |-> DetailOr(r.details, "name", Unknown),
             category |-> u.category,
             net_score |-> r.score \div 10,
             net_score_latency |-> latency,
             url |-> u.link,
             raw_score |-> r.score,
             max_score |-> r.max_score,
             percentage |-> percentage(r),
             size_score |-> DetailOr(r.details, "size_score", <<>>)]
        metrics ==
            IF u.category = "DATASET" THEN
                [downloads |-> DetailOr(r.details, "downloads", Num(0)),
                 likes |-> DetailOr(r.details, "likes", Num(0)),
                 has_description |-> DetailOr(r.details, "has_description", FALSE)]
            ELSE IF u.category = "MODEL" THEN
                [downloads |-> DetailOr(r.details, "downloads", Num(0)),
                 likes |-> DetailOr(r.details, "likes", Num(0)),
                 has_model_card |-> DetailOr(r.details, "has_model_card", FALSE),
                 pipeline_tag |-> DetailOr(r.details, "pipeline_tag", Null)]
            ELSE
                [stars |-> DetailOr(r.details, "stars", Num(0)),
                 forks |-> DetailOr(r.details, "forks", Num(0)),
                 has_description |-> DetailOr(r.details, "has_description", FALSE),
                 has_license |-> DetailOr(r.details, "has_license", FALSE),
                 language |-> DetailOr(r.details, "language", Null)]
    IN  common @@ metrics       \* ndjson_entry.update(...)

NoFile == <<"no file">>

----------------------------------------------------------------------------
(* log/logger.py: the Logger                                               *)

\* a variable of os.environ: not set, or set to a string
NotSet == [set |-> FALSE, value |-> ""]
SetTo(v) == [set |-> TRUE, value |-> v]

\* os.getenv(key), os.getenv(key, default): None stands for itself
None == [set |-> FALSE, value |-> ""]
getenv(variable, default) == IF variable.set THEN variable ELSE default

\* the paths LOG_FILE is set to: LogPath lies in a directory that exists or
\* can be made, and can be opened for appending; nothing can be made or
\* opened at BadPath
LogPath == "logs/app.log"
BadPath == "/proc/none/app.log"
LogFileSettings == {NotSet, SetTo(""), SetTo(LogPath), SetTo(BadPath)}

\* the file at LogPath: it does not exist, or it holds lines
NoLog == [exists |-> FALSE, lines |-> <<>>]

\* the strings LOG_LEVEL is set to
LogLevelSettings ==
    {NotSet} \cup {SetTo(v) : v \in {"0", "1", "2", "3", "-1", " 2", "abc", ""}}

Environs == [LOG_FILE : LogFileSettings, LOG_LEVEL : LogLevelSettings]

\* int(s): the integer a decimal numeral stands for, blanks around it
\* ignored; ValueError for any other string
int_of(s) ==
    CASE s \in {"0"} -> [raised |-> "none", value |-> 0]
      [] s \in {"1"} -> [raised |-> "none", value |-> 1]
      [] s \in {"2", " 2"} -> [raised |-> "none", value |-> 2]
      [] s \in {"3"} -> [raised |-> "none", value |-> 3]
      [] s \in {"-1"} -> [raised |-> "none", value |-> 0 - 1]
      [] OTHER -> [raised |-> "ValueError", value |-> 0]

\* LogLevel, logger.py 8-11
LogLevel == [SILENT |-> 0, INFO |-> 1, DEBUG |-> 2]

\* a variant of Logger without the test "not in [0, 1, 2]"
LoggerAnyLevel(env) ==
    LET parsed == int_of(getenv(env.LOG_LEVEL, SetTo("0")).value)
    IN  [log_file_path |-> getenv(env.LOG_FILE, None),
         log_level |-> IF parsed.raised # "none" THEN 0 ELSE parsed.value]

\* Logger.__init__, logger.py 22-32: the instance built from the environment
Logger(env) ==
    LET parsed == int_of(getenv(env.LOG_LEVEL, SetTo("0")).value)
        level == IF parsed.raised # "none" THEN 0 ELSE parsed.value
    IN  [log_file_path |-> getenv(env.LOG_FILE, None),
         log_level |-> IF level \notin {0, 1, 2} THEN 0 ELSE level]

\* LogLevel(value).name, ValueError for a value that is no member
LogLevelName(value) ==
    CASE value = 0 -> "SILENT"
      [] value = 1 -> "INFO"
      [] value = 2 -> "DEBUG"
      [] OTHER -> "ValueError"

\* Logger.get_config, logger.py 66-71
get_config(logger) ==
    [log_file |-> logger.log_file_path,
     log_level |-> logger.log_level,
     log_level_name |-> LogLevelName(logger.log_level)]

\* get_config was not called
NoConfig == [log_file |-> None, log_level |-> 0 - 1, log_level_name |-> ""]

\* "if self.log_file_path:", "if not self.log_file_path:"
PathGiven(path) == path.set /\ path.value # ""

\* Logger.__init__, logger.py 34-40: mkdir(parents=True, exist_ok=True) of
\* the parent of the log file; an exception is swallowed
LoggerMkdir(logger, fs) ==
    IF PathGiven(logger.log_file_path) /\ logger.log_file_path.value = LogPath
    THEN [fs EXCEPT !.dir = TRUE]
    ELSE fs

\* open(path, "a") and f.write(log_entry): the line is appended to the file,
\* which is created when it does not exist; OSError when the file cannot be
\* opened
AppendLine(path, line, fs) ==
    IF path = LogPath /\ fs.dir
    THEN [raised |-> "none",
          fs |-> [fs EXCEPT !.log = [exists |-> TRUE,
                                     lines |-> Append(fs.log.lines, line)]]]
    ELSE [raised |-> "OSError", fs |-> fs]

\* f"[{timestamp}] {level_name}: {message}\n"
log_entry(timestamp, level_name, message) ==
    [timestamp |-> timestamp, level_name |-> level_name, message |-> message]

\* a variant of write_log whose first test is "<=": a level equal to the
\* configured one is not written
write_log_le(logger, level_name, message, timestamp, fs) ==
    IF logger.log_level <= LogLevel[level_name] THEN [raised |-> "none", fs |-> fs]
    ELSE IF ~PathGiven(logger.log_file_path) THEN [raised |-> "none", fs |-> fs]
    ELSE [raised |-> "none",
          fs |-> AppendLine(logger.log_file_path.value,
                            log_entry(timestamp, level_name, message), fs).fs]

\* a variant of write_log without the try and except around open and write
write_log_uncaught(logger, level_name, message, timestamp, fs) ==
    IF logger.log_level < LogLevel[level_name] THEN [raised |-> "none", fs |-> fs]
    ELSE IF ~PathGiven(logger.log_file_path) THEN [raised |-> "none", fs |-> fs]
    ELSE AppendLine(logger.log_file_path.value,
                    log_entry(timestamp, level_name, message), fs)

\* Logger._write_log, logger.py 42-56
write_log(logger, level_name, message, timestamp, fs) ==
    IF logger.log_level < LogLevel[level_name] THEN [raised |-> "none", fs |-> fs]
    ELSE IF ~PathGiven(logger.log_file_path) THEN [raised |-> "none", fs |-> fs]
    ELSE \* "except Exception": what open or write raises is swallowed
         [raised |-> "none",
          fs |-> AppendLine(logger.log_file_path.value,
                            log_entry(timestamp, level_name, message), fs).fs]

----------------------------------------------------------------------------
(* The specification of calculate_size_score as a pure function: the       *)
(* argument is drawn from the bounded sizes and the function applied.      *)

Sizes == (0 - MaxNegSize) .. MaxSizeMb

\* the reporting loop is not running
ReportIdle ==
    /\ urlFile = <<>> /\ urls = <<>> /\ i = 0 /\ ndjson_results = <<>>
    /\ totals = [total_score |-> 0, total_max_score |-> 0, valid_urls |-> 0]
    /\ scores_ndjson = NoFile

NoMap == [h \in Hardware |-> 0 - 1]

\* calculate_size_score and score_url are not running
SizeIdle == model_size_mb = 0 /\ size_score = NoMap
ScoreIdle ==
    /\ url = NoLink /\ category = "INVALID" /\ name = <<>>
    /\ requests = <<>> /\ data = NoData /\ result = NoResult
    /\ raised = "none" /\ repository = "not analysed"

\* no percentage was read, no request made, no Url built, nothing logged
NoPercent == [raised |-> "none", value |-> 0 - 1]
NoUrl == [link |-> NoLink, category |-> "INVALID"]
UrlIdle == detected = "none" /\ url_obj = NoUrl /\ stdout = <<>>
LogIdle ==
    /\ environ = <<>> /\ loggers = <<>> /\ files = <<>> /\ calls = <<>>
    /\ clock = 0 /\ config = <<>>
AuxIdle == percent = NoPercent /\ http = "no request" /\ UrlIdle /\ LogIdle

InitSize ==
    /\ pc = "size_arg"
    /\ model_size_mb \in Sizes
    /\ size_score = NoMap
    /\ url = NoLink /\ category = "INVALID" /\ name = <<>>
    /\ requests = <<>> /\ data = NoData /\ result = NoResult
    /\ raised = "none" /\ repository = "not analysed"
    /\ ReportIdle
    /\ AuxIdle

CallCalculateSizeScore ==
    /\ pc = "size_arg"
    /\ size_score' = calculate_size_score(model_size_mb)
    /\ pc' = "size_done"
    /\ UNCHANGED <<model_size_mb, scoreVars, reportVars, auxVars>>

NextSize == CallCalculateSizeScore

SpecSize == InitSize /\ [][NextSize]_vars

----------------------------------------------------------------------------
(* The specification of score_url: the link and the category are drawn     *)
(* from the bounded sets, score_url is called, and make_request, when the  *)
(* call reaches it, returns any of the responses.                          *)

InitScore ==
    /\ pc = "call"
    /\ url \in Links
    /\ category \in Categories
    /\ name = <<>> /\ requests = <<>> /\ data = NoData /\ result = NoResult
    /\ raised = "none" /\ repository = "not analysed"
    /\ model_size_mb = 0 /\ size_score = NoMap
    /\ ReportIdle
    /\ AuxIdle

\* score_url is called and runs until it returns or calls make_request
ScoreUrlCall ==
    /\ pc = "call"
    /\ LET b == score_url_begin(url, category)
       IN  IF b.done
           THEN /\ result' = b.result
                /\ pc' = "returned"
                /\ UNCHANGED <<name, requests>>
           ELSE /\ name' = b.name
                /\ requests' = Append(requests, [api |-> b.api, name |-> b.name])
                /\ pc' = "request"
                /\ UNCHANGED result
    /\ UNCHANGED <<url, category, data, raised, repository, sizeVars, reportVars,
                   auxVars>>

\* make_request returns d and score_url runs to its end.  The scorer hands
\* the parsed name to estimate_model_size; the repository of that name can be
\* cloned and measured at that moment, or it cannot (it does not exist, or
\* no network answers): analyze_model_repository does not look.
ScoreUrlResume ==
    /\ pc = "request"
    /\ \E d \in Responses(FieldsOf(category)) :
          LET o == score_url_resume(url, category, name, d)
          IN  /\ data' = d
              /\ result' = o.result
              /\ raised' = o.raised
              /\ pc' = IF o.raised = "none" THEN "returned" ELSE "raised"
    /\ repository' \in {"cloneable", "unreachable"}
    /\ UNCHANGED <<url, category, name, requests, sizeVars, reportVars, auxVars>>

NextScore == ScoreUrlCall \/ ScoreUrlResume

SpecScore == InitScore /\ [][NextScore]_vars

----------------------------------------------------------------------------
(* The specification of ScoreResult.percentage as a pure function: a       *)
(* ScoreResult is built with a score and a max_score drawn from the        *)
(* bounded values (the dataclass accepts any floats: zero and negative     *)
(* max_score included) and the property is read.                           *)

ScoreArgs == {500 * k : k \in (0 - MaxNegHalves) .. MaxHalves}

InitPercentage ==
    /\ pc = "percentage_arg"
    /\ \E score \in ScoreArgs, max_score \in ScoreArgs :
          result = ScoreResult(NoLink, "MODEL", score, max_score, [none |-> TRUE])
    /\ url = NoLink /\ category = "INVALID" /\ name = <<>>
    /\ requests = <<>> /\ data = NoData
    /\ raised = "none" /\ repository = "not analysed"
    /\ SizeIdle
    /\ ReportIdle
    /\ AuxIdle

ReadPercentage ==
    /\ pc = "percentage_arg"
    /\ percent' = percentage_outcome(result)
    /\ pc' = "percentage_read"
    /\ UNCHANGED <<sizeVars, scoreVars, reportVars, http, urlVars, logVars>>

NextPercentage == ReadPercentage

SpecPercentage == InitPercentage /\ [][NextPercentage]_vars

----------------------------------------------------------------------------
(* The specification of make_request: what the network does with the       *)
(* request is drawn from the bounded outcomes and make_request is called.  *)

InitRequest ==
    /\ pc = "request_arg"
    /\ http \in HttpOutcomes
    /\ ScoreIdle
    /\ SizeIdle
    /\ ReportIdle
    /\ percent = NoPercent /\ UrlIdle /\ LogIdle

MakeRequest ==
    /\ pc = "request_arg"
    /\ LET o == make_request(http)
       IN  /\ data' = o.value
           /\ raised' = o.raised
           /\ pc' = IF o.raised = "none" THEN "request_returned"
                    ELSE "request_raised"
    /\ UNCHANGED <<url, category, name, requests, result, repository, http,
                   sizeVars, reportVars, percent, urlVars, logVars>>

NextRequest == MakeRequest

SpecRequest == InitRequest /\ [][NextRequest]_vars

----------------------------------------------------------------------------
(* The specification of url.py: a link and a category are drawn from the   *)
(* bounded sets; determine_category is applied to the link, or a Url is    *)
(* constructed from the link and the category.                             *)

InitUrl ==
    /\ pc = "url_arg"
    /\ url \in Links
    /\ category \in Categories
    /\ name = <<>> /\ requests = <<>> /\ data = NoData /\ result = NoResult
    /\ raised = "none" /\ repository = "not analysed"
    /\ SizeIdle
    /\ ReportIdle
    /\ AuxIdle

DetermineCategory ==
    /\ pc = "url_arg"
    /\ detected' = determine_category(url)
    /\ pc' = "classified"
    /\ UNCHANGED <<url_obj, stdout, sizeVars, scoreVars, reportVars, percent, http,
                   logVars>>

ConstructUrl ==
    /\ pc = "url_arg"
    /\ url_obj' = Url(url, category)
    /\ stdout' = stdout \o UrlPrints(url, category)
    /\ pc' = "constructed"
    /\ UNCHANGED <<detected, sizeVars, scoreVars, reportVars, percent, http, logVars>>

NextUrl == DetermineCategory \/ ConstructUrl

SpecUrl == InitUrl /\ [][NextUrl]_vars

----------------------------------------------------------------------------
(* The specification of the Logger: the environment holds some LOG_FILE    *)
(* and LOG_LEVEL, the log file does not exist; Logger instances are        *)
(* constructed and their log_info and log_debug called, in any order.      *)

\* the instances a program holds: the logger of main.py and one more
LoggerIds == {1, 2}

InitLog ==
    /\ pc = "logging"
    /\ environ \in Environs
    /\ loggers = <<>>
    /\ files \in [dir : BOOLEAN, log : {NoLog}]
    /\ calls = <<>>
    /\ clock = 0
    /\ config = NoConfig
    /\ ScoreIdle
    /\ SizeIdle
    /\ ReportIdle
    /\ percent = NoPercent /\ http = "no request" /\ UrlIdle

\* Logger(): logger.py 21-40
NewLogger ==
    /\ pc = "logging"
    /\ Len(loggers) < Cardinality(LoggerIds)
    /\ loggers' = Append(loggers, Logger(environ))
    /\ files' = LoggerMkdir(Logger(environ), files)
    /\ UNCHANGED <<pc, environ, calls, clock, config, sizeVars, scoreVars,
                   reportVars, percent, http, urlVars>>

\* loggers[k].log_info(message) or log_debug(message), logger.py 58-64: the
\* time is read, then _write_log runs; message is the number of the call
Log(k, level_name) ==
    /\ pc = "logging"
    /\ Len(calls) < MaxCalls
    /\ \E now \in clock .. MaxClock :
          LET message == Len(calls) + 1
              o == write_log(loggers[k], level_name, message, now, files)
          IN  /\ clock' = now
              /\ calls' = Append(calls, [logger |-> k, level_name |-> level_name,
                                         message |-> message, timestamp |-> now])
              /\ files' = o.fs
              /\ raised' = o.raised
              /\ pc' = IF o.raised = "none" THEN "logging" ELSE "log_raised"
    /\ UNCHANGED <<environ, loggers, config, sizeVars, url, category, name,
                   requests, data, result, repository, reportVars, percent, http,
                   urlVars>>

\* loggers[k].get_config(), logger.py 66-71
GetConfig ==
    /\ pc = "logging"
    /\ \E k \in 1..Len(loggers) : config' = get_config(loggers[k])
    /\ UNCHANGED <<pc, environ, loggers, files, calls, clock, sizeVars, scoreVars,
                   reportVars, percent, http, urlVars>>

LogInfo == \E k \in 1..Len(loggers) : Log(k, "INFO")
LogDebug == \E k \in 1..Len(loggers) : Log(k, "DEBUG")

NextLog == NewLogger \/ LogInfo \/ LogDebug \/ GetConfig

SpecLog == InitLog /\ [][NextLog]_vars

----------------------------------------------------------------------------
(* The specification of the program: main reads the URL file and           *)
(* calculate_scores scores its urls one after the other and writes         *)
(* scores.ndjson.                                                          *)

\* the lines a URL file is made of
FileLinks ==
    {[head |-> HF, path |-> <<"datasets", "/", "a">>],
     [head |-> HF, path |-> <<"a", "/", "a">>],
     [head |-> HF, path |-> <<"a">>],
     [head |-> GH, path |-> <<"a", "/", "a">>],
     [head |-> "https://githubXcom/", path |-> <<"a", "/", "a">>],
     [head |-> "http://huggingface.co/", path |-> <<"a", "/", "a">>],
     EmptyLine}

\* the responses the apis are made to give while a file is scored
SampleResponses(c) ==
    {[kind |-> "None", f |-> NoFields],
     [kind |-> "empty_object", f |-> NoFields]}
    \cup
    {[kind |-> "object", f |-> f] : f \in
        IF c = "DATASET" THEN
            {[downloads |-> Absent, likes |-> Absent, description |-> Absent],
             [downloads |-> Num(15000), likes |-> Num(60), description |-> Str(9)],
             [downloads |-> Null, likes |-> Num(60), description |-> Str(9)]}
        ELSE IF c = "MODEL" THEN
            {[downloads |-> Absent, likes |-> Absent, cardData |-> Absent,
              pipeline_tag |-> Absent],
             [downloads |-> Num(100001), likes |-> Num(101), cardData |-> Obj(2),
              pipeline_tag |-> Str(9)],
             [downloads |-> Num(500), likes |-> Null, cardData |-> Obj(2),
              pipeline_tag |-> Str(9)]}
        ELSE
            {[stargazers_count |-> Absent, forks_count |-> Absent,
              description |-> Absent, license |-> Absent, language |-> Absent],
             [stargazers_count |-> Num(1001), forks_count |-> Num(11),
              description |-> Str(9), license |-> Obj(5), language |-> Str(6)],
             [stargazers_count |-> Null, forks_count |-> Num(11),
              description |-> Str(9), license |-> Null, language |-> Null]}}

\* round((end_time - start_time) * 1000): the milliseconds one assignment took
Latencies == {0, 1}

Init ==
    /\ pc = "main"
    /\ urlFile \in SeqsUpTo(FileLinks, MaxLines)
    /\ urls = <<>> /\ i = 0 /\ ndjson_results = <<>>
    /\ totals = [total_score |-> 0, total_max_score |-> 0, valid_urls |-> 0]
    /\ scores_ndjson = NoFile
    /\ url = NoLink /\ category = "INVALID" /\ name = <<>>
    /\ requests = <<>> /\ data = NoData /\ result = NoResult
    /\ raised = "none" /\ repository = "not analysed"
    /\ model_size_mb = 0 /\ size_score = NoMap
    /\ AuxIdle

\* main.py 206-211: urls = parseUrlFile(urlFile), calculate_scores(urls) begins
ParseUrlFile ==
    /\ pc = "main"
    /\ urls' = parseUrlFile(urlFile)
    /\ i' = 1
    /\ pc' = "loop"
    /\ UNCHANGED <<urlFile, ndjson_results, totals, scores_ndjson, scoreVars,
                   sizeVars, auxVars>>

\* main.py 38-61: one pass of the loop, for a url of category INVALID
ScoreInvalidUrl ==
    /\ pc = "loop" /\ i <= Len(urls)
    /\ urls[i].category = "INVALID"
    /\ \E latency \in Latencies :
          ndjson_results' = Append(ndjson_results, invalid_entry(urls[i], latency))
    /\ i' = i + 1
    /\ UNCHANGED <<pc, urlFile, urls, totals, scores_ndjson, scoreVars, sizeVars,
                   auxVars>>

\* main.py 63-162: one pass of the loop, for a url of another category
ScoreValidUrl ==
    /\ pc = "loop" /\ i <= Len(urls)
    /\ urls[i].category # "INVALID"
    /\ url' = urls[i].link
    /\ category' = urls[i].category
    /\ \E d \in SampleResponses(urls[i].category), latency \in Latencies :
          LET b == score_url_begin(urls[i].link, urls[i].category)
              o == score_url(urls[i].link, urls[i].category, d)
              r == o.result
          IN  /\ name' = b.name
              /\ data' = IF b.done THEN NoData ELSE d
              /\ requests' = IF b.done THEN requests
                             ELSE Append(requests, [api |-> b.api, name |-> b.name])
              /\ result' = r
              /\ raised' = o.raised
              /\ IF o.raised # "none"
                 THEN \* the exception leaves calculate_scores and main
                      /\ pc' = "crashed"
                      /\ UNCHANGED <<i, totals, ndjson_results>>
                 ELSE /\ pc' = "loop"
                      /\ i' = i + 1
                      /\ IF r.score > 0
                         THEN /\ totals' =
                                   [total_score |-> totals.total_score + r.score,
                                    total_max_score |->
                                        totals.total_max_score + r.max_score,
                                    valid_urls |-> totals.valid_urls + 1]
                              /\ ndjson_results' =
                                   Append(ndjson_results,
                                          ndjson_entry(urls[i], r, latency))
                         ELSE UNCHANGED <<totals, ndjson_results>>
    /\ UNCHANGED <<urlFile, urls, scores_ndjson, sizeVars, repository, auxVars>>

\* main.py 190-194: after the loop, one line per collected entry is written
WriteNdjson ==
    /\ pc = "loop" /\ i > Len(urls)
    /\ scores_ndjson' = [k \in 1..Len(ndjson_results) |-> [json |-> ndjson_results[k]]]
    /\ pc' = "done"
    /\ UNCHANGED <<urlFile, urls, i, ndjson_results, totals, scoreVars, sizeVars,
                   auxVars>>

Next == ParseUrlFile \/ ScoreInvalidUrl \/ ScoreValidUrl \/ WriteNdjson

Spec == Init /\ [][Next]_vars

----------------------------------------------------------------------------
(* Properties of calculate_size_score, checked under SpecSize              *)

Abs(x) == IF x < 0 THEN 0 - x ELSE x

\* the thresholds as the specification states them
StatedMax ==
    [raspberry_pi |-> 200, jetson_nano |-> 500, desktop_pc |-> 5000,
     aws_server |-> 50000]

C11_NonPositiveSizeFitsAll ==
    (pc = "size_done" /\ model_size_mb <= 0) =>
        /\ DOMAIN size_score = Hardware
        /\ \A h \in Hardware : size_score[h] = 100

C11_Witness ==
    /\ pc = "size_done"
    /\ model_size_mb < 0
    /\ \A h \in Hardware : size_score[h] = 100

LargerSizes(a) ==
    {b \in {a + 1} \cup UNION {{StatedMax[h] \div 2, StatedMax[h] - 1,
                                 StatedMax[h], StatedMax[h] + 1} : h \in Hardware} :
        a <= b}

\* C13: for each hardware class the rounded fitness does not grow with the
\* size: for a <= b, the fitness of a is at least the fitness of b.  Every
\* size a of the range is compared with a + 1 (which gives every pair a <= b
\* of the range, step by step) and with the sizes around the capacities.
C13_FitnessNonIncreasing ==
    pc = "size_done" =>
        \A b \in LargerSizes(model_size_mb), h \in Hardware :
            size_score[h] >= calculate_size_score(b)[h]

C13_Witness ==
    /\ pc = "size_done"
    /\ model_size_mb = 99
    /\ size_score.raspberry_pi = 51
    /\ calculate_size_score(100).raspberry_pi = 50
    /\ size_score.aws_server = calculate_size_score(100).aws_server

----------------------------------------------------------------------------
(* Properties of score_url, checked under SpecScore                        *)

\* the call is over and returned a ScoreResult
Returned == pc = "returned"

\* make_request returned an object to the scorer of category c
ScoredObject(c) == category = c /\ data.kind = "object"

\* the value a numeric field stands for when it is a number or is missing
NumberOrAbsent(field) == field.t \in {"num", "absent"}
ValueOf(field) == IF field.t = "num" THEN field.v ELSE 0

\* a field holds a non-empty string or object
NonEmpty(field) == field.t \in {"str", "obj"} /\ field.v > 0

\* a field is there with a value (not null), empty or not
Present(field) == field.t \notin {"absent", "null"}

Tier3(x, t3, b3, t2, b2, t1, b1) ==
    IF x > t3 THEN b3 ELSE IF x > t2 THEN b2 ELSE IF x > t1 THEN b1 ELSE 0

Tier2(x, t2, b2, t1, b1) ==
    IF x > t2 THEN b2 ELSE IF x > t1 THEN b1 ELSE 0

\* C2: every ScoreResult score_url returns, for every category, link and
\* response, has max_score = 10.0 and 0 <= score <= max_score.
C2_ScoreWithinBounds ==
    Returned =>
        /\ result.max_score = 10000
        /\ 0 <= result.score
        /\ result.score <= result.max_score

C2_Witness == Returned /\ result.score = 10000 /\ category = "MODEL"

\* C3: with an object fetched for a parseable dataset link whose downloads
\* and likes are numbers or missing, score_dataset returns 2.0 + D + L + H
\* (D: 3.0 above 10000 downloads, 2.0 above 1000, 1.0 above 100; L: 2.0 above
\* 50 likes, 1.0 above 10; H: 2.0 for a non-empty description; a missing
\* field counts as 0 or empty); 15000 downloads, 60 likes and a description
\* give 9.0.
C3_DatasetScore ==
    (/\ ScoredObject("DATASET")
     /\ NumberOrAbsent(data.f.downloads)
     /\ NumberOrAbsent(data.f.likes)) =>
        /\ Returned
        /\ result.score =
              2000
              + Tier3(ValueOf(data.f.downloads), 10000, 3000, 1000, 2000, 100, 1000)
              + Tier2(ValueOf(data.f.likes), 50, 2000, 10, 1000)
              + (IF NonEmpty(data.f.description) THEN 2000 ELSE 0)
        /\ (/\ data.f.downloads = Num(15000)
            /\ data.f.likes = Num(60)
            /\ NonEmpty(data.f.description)) => result.score = 9000

C3_Witness ==
    /\ ScoredObject("DATASET")
    /\ data.f.downloads = Num(15000)
    /\ data.f.likes = Num(60)
    /\ data.f.description = Str(9)
    /\ Returned
    /\ result.score = 9000

\* the model score of C4, with the bonus for the card given when has_card and
\* the bonus for the pipeline tag given when has_tag
ModelScoreStated(has_card, has_tag) ==
    2000
    + Tier3(ValueOf(data.f.downloads), 100000, 3000, 10000, 2000, 1000, 1000)
    + Tier2(ValueOf(data.f.likes), 100, 2000, 20, 1000)
    + (IF has_card THEN 2000 ELSE 0)
    + (IF has_tag THEN 1000 ELSE 0)

ModelObjectScored ==
    /\ ScoredObject("MODEL")
    /\ NumberOrAbsent(data.f.downloads)
    /\ NumberOrAbsent(data.f.likes)

CodeScoreStated(has_license, has_language) ==
    2000
    + Tier3(ValueOf(data.f.stargazers_count), 1000, 3000, 100, 2000, 10, 1000)
    + Tier2(ValueOf(data.f.forks_count), 100, 1000, 10, 500)
    + (IF NonEmpty(data.f.description) THEN 2000 ELSE 0)
    + (IF has_license THEN 1000 ELSE 0)
    + (IF has_language THEN 1000 ELSE 0)

CodeObjectScored ==
    /\ ScoredObject("CODE")
    /\ NumberOrAbsent(data.f.stargazers_count)
    /\ NumberOrAbsent(data.f.forks_count)

NameNotParsed ==
    \/ category = "DATASET" /\ ~DatasetNameMatch(url).matched
    \/ category = "MODEL" /\ ~ModelNameMatch(url).matched
    \/ category = "CODE" /\ ~CodeNameMatch(url).matched

\* the result of the unparseable-identifier path
ErrorResultShape ==
    /\ Returned
    /\ result.score = 0
    /\ result.max_score = 10000
    /\ "error" \in DOMAIN result.details
    /\ "size_score" \in DOMAIN result.details
    /\ DOMAIN result.details.size_score = Hardware

\* C6: when the scorer of a dataset, model or code link cannot parse the
\* name, the call returns score 0.0, max_score 10.0, details with `error`
\* and a size-fitness map with the four hardware keys, and make_request is
\* never called.
C6_UnparseableName ==
    (pc # "call" /\ NameNotParsed) => ErrorResultShape /\ requests = <<>>

C6_Witness ==
    /\ Returned
    /\ category = "MODEL"
    /\ url = [head |-> HF, path |-> <<"a">>]
    /\ result.details.name = Unknown
    /\ requests = <<>>

\* make_request returned None: the request failed, or the body was null
NoDataFetched == data.kind \in {"None", "null"}

\* C7: when the name parses and the fetch returns no data, the call returns
\* the fallback score (0.0 for a dataset, 2.0 for a model, 2.0 for code) with
\* fallback true, no `error` detail and a size-fitness map.
C7_FallbackScore ==
    NoDataFetched =>
        /\ Returned
        /\ result.score = (IF category = "DATASET" THEN 0 ELSE 2000)
        /\ category \in {"DATASET", "MODEL", "CODE"}
        /\ "fallback" \in DOMAIN result.details
        /\ result.details.fallback = TRUE
        /\ "error" \notin DOMAIN result.details
        /\ "size_score" \in DOMAIN result.details
        /\ DOMAIN result.details.size_score = Hardware

C7_Witness ==
    /\ NoDataFetched
    /\ category = "DATASET"
    /\ Returned
    /\ result.score = 0
    /\ result.details.fallback = TRUE

\* C8: score_url with category Invalid returns, for every link, category
\* Invalid, score 0.0, max_score 10.0, an `error` detail and the size-fitness
\* map of the default estimate of an unknown artifact (500 MB: 0.0, 0.0, 0.9,
\* 0.99); no scorer runs and make_request is never called.
C8_InvalidCategory ==
    (category = "INVALID" /\ pc # "call") =>
        /\ Returned
        /\ result.category = "INVALID"
        /\ result.url = url
        /\ result.score = 0
        /\ result.max_score = 10000
        /\ "error" \in DOMAIN result.details
        /\ result.details.error = "Invalid category"
        /\ result.details.size_score =
              [raspberry_pi |-> 0, jetson_nano |-> 0, desktop_pc |-> 90,
               aws_server |-> 99]
        /\ requests = <<>>
        /\ data = NoData

C8_Witness ==
    /\ category = "INVALID"
    /\ Returned
    /\ url = [head |-> HF, path |-> <<"a", "/", "a">>]
    /\ result.score = 0

\* C9: for every link, category and response of make_request, score_url
\* returns a ScoreResult and raises no exception.
C9_NeverRaises == raised = "none" /\ pc # "raised"

\* C14: every ScoreResult score_url returns, on every path (rule-based,
\* fallback, unparseable name, Invalid category), carries details.size_score,
\* a map with exactly the four hardware keys and values in [0, 1].
C14_SizeScoreInEveryResult ==
    Returned =>
        /\ "size_score" \in DOMAIN result.details
        /\ DOMAIN result.details.size_score = Hardware
        /\ \A h \in Hardware : result.details.size_score[h] \in 0..100

C14_Witness ==
    /\ Returned
    /\ category = "CODE"
    /\ data.kind = "None"
    /\ "fallback" \in DOMAIN result.details
    /\ DOMAIN result.details.size_score = Hardware
    /\ \A h \in Hardware : result.details.size_score[h] = 100

\* the size-fitness map of the 1000 MB default: 0.0, 0.0, 0.8, 0.98
FailedAnalysisMap == calculate_size_score(1000)

\* C15: when the estimator cannot obtain any size (the repository of the
\* scored url cannot be analysed) the size used is the default 1000 MB, and
\* this happens for a scored url: a result returned for a parsed name whose
\* repository is unreachable carries the size-fitness map of 1000 MB.
C15_FailedAnalysisDefault ==
    (Returned /\ repository = "unreachable") =>
        /\ "size_score" \in DOMAIN result.details
        /\ result.details.size_score = FailedAnalysisMap

----------------------------------------------------------------------------
(* Properties of ScoreResult.percentage, checked under SpecPercentage      *)

\* C16: ScoreResult.percentage is 100 * score / max_score when max_score is
\* positive (7.5 of 10.0 is 75.0), and 0.0 when max_score is zero or
\* negative; reading it never raises a division error.  The quotient is
\* compared to three decimals, the resolution of the model.
C16_Percentage ==
    pc = "percentage_read" =>
        /\ percent.raised = "none"
        /\ IF result.max_score > 0
           THEN /\ percent.value * result.max_score <= 100000 * result.score
                /\ 100000 * result.score < (percent.value + 1) * result.max_score
           ELSE percent.value = 0
        /\ (result.score = 7500 /\ result.max_score = 10000 =>
               percent.value = 75000)

C16_Witness ==
    /\ pc = "percentage_read"
    /\ result.score = 7500
    /\ result.max_score = 10000
    /\ percent = [raised |-> "none", value |-> 75000]

----------------------------------------------------------------------------
(* Properties of make_request, checked under SpecRequest                   *)

\* the request succeeded: a response came, of a 2xx status, with a JSON body
RequestSucceeded ==
    /\ http.get = "response"
    /\ http.status \in 200..299
    /\ http.body.json

----------------------------------------------------------------------------
(* Properties of url.py, checked under SpecUrl                             *)

\* a path as the patterns want it: it begins with word characters
HasWordPath(link) == Len(link.path) >= 1 /\ IsWord(link.path[1])

\* the link matches the dataset pattern: https://huggingface.co/datasets/
\* followed by word characters
IsDatasetLink(link) ==
    /\ link.head = HF
    /\ Len(link.path) >= 3
    /\ link.path[1] = "datasets" /\ link.path[2] = "/" /\ IsWord(link.path[3])

\* C17: determine_category returns the first of dataset, model, code that
\* matches at the start of the link: a link matching the dataset pattern is
\* DATASET (it matches the model pattern too), every other link
\* https://huggingface.co/ with a path is MODEL, a link https://github.com/
\* with a path is CODE, and every other link (http://, another host, a bare
\* host, the empty string) is INVALID.
C17_Classification ==
    pc = "classified" =>
        detected =
            IF IsDatasetLink(url) THEN "DATASET"
            ELSE IF url.head = HF /\ HasWordPath(url) THEN "MODEL"
            ELSE IF url.head = GH /\ HasWordPath(url) THEN "CODE"
            ELSE "INVALID"

\* C19: Url(link, category) with a category other than INVALID keeps that
\* category, also when it does not match the link, and prints nothing; with
\* INVALID (the default) the category becomes determine_category(link) and
\* the line "Invalid URL" is printed exactly when that is INVALID; the link
\* is stored unchanged.
C19_UrlConstruction ==
    pc = "constructed" =>
        /\ url_obj.link = url
        /\ IF category # "INVALID"
           THEN url_obj.category = category /\ stdout = <<>>
           ELSE /\ url_obj.category = determine_category(url)
                /\ stdout = IF url_obj.category = "INVALID"
                            THEN <<InvalidUrlMessage(url)>> ELSE <<>>

C19_Witness ==
    /\ pc = "constructed"
    /\ url = [head |-> HF, path |-> <<"datasets", "/", "a">>]
    /\ category = "MODEL"
    /\ url_obj = [link |-> url, category |-> "MODEL"]
    /\ stdout = <<>>

----------------------------------------------------------------------------
(* Properties of the Logger, checked under SpecLog                         *)

\* the calls whose level value is at most the level of their logger
RECURSIVE WrittenCalls(_)
WrittenCalls(cs) ==
    IF cs = <<>> THEN <<>>
    ELSE LET c == Head(cs)
         IN  (IF LogLevel[c.level_name] <= loggers[c.logger].log_level
              THEN <<[timestamp |-> c.timestamp, level_name |-> c.level_name,
                      message |-> c.message]>>
              ELSE <<>>) \o WrittenCalls(Tail(cs))

\* C20: with LOG_FILE set to a writable path, after any sequence of
\* log_info and log_debug calls of any of the Logger instances the log file
\* holds, in the order of the calls, exactly one entry for every call whose
\* level value (INFO 1, DEBUG 2) is at most the configured level, and the
\* file does not exist while there is no such call; at level 0 nothing is
\* written and the file is never created.
C20_LogFileHoldsEligibleCalls ==
    environ.LOG_FILE = SetTo(LogPath) =>
        /\ files.log.lines = WrittenCalls(calls)
        /\ files.log.exists = (WrittenCalls(calls) # <<>>)
        /\ (\A k \in 1..Len(loggers) : loggers[k].log_level = 0) =>
               files.log = NoLog
        /\ \A k \in 1..Len(loggers) :
               environ.LOG_LEVEL \in {SetTo("0"), SetTo("1"), SetTo("2")} =>
                   loggers[k].log_level = int_of(environ.LOG_LEVEL.value).value

C20_Witness ==
    /\ environ = [LOG_FILE |-> SetTo(LogPath), LOG_LEVEL |-> SetTo("1")]
    /\ Len(loggers) = 2
    /\ Len(calls) = 3
    /\ calls[1].logger = 1 /\ calls[1].level_name = "INFO"
    /\ calls[2].logger = 2 /\ calls[2].level_name = "DEBUG"
    /\ calls[3].logger = 2 /\ calls[3].level_name = "INFO"
    /\ files.log.exists
    /\ Len(files.log.lines) = 2
    /\ files.log.lines[1].message = 1 /\ files.log.lines[2].message = 3

\* the strings that are no integer, and those of an integer outside 0..2
NotAnInteger == {"abc", ""}
OutOfRange == {"3", "-1"}

\* C21: a LOG_LEVEL that is not an integer, or is an integer outside
\* {0, 1, 2}, makes the Logger use level 0 (SILENT); so does an unset
\* LOG_LEVEL; with LOG_FILE unset, get_config reports log_file None.
C21_InvalidLevelIsSilent ==
    /\ \A k \in 1..Len(loggers) :
          /\ (\/ ~environ.LOG_LEVEL.set
              \/ environ.LOG_LEVEL.value \in NotAnInteger \cup OutOfRange) =>
                 loggers[k].log_level = 0
          /\ loggers[k].log_level \in {0, 1, 2}
    /\ config # NoConfig =>
          /\ (~environ.LOG_FILE.set => config.log_file = None)
          /\ (\/ ~environ.LOG_LEVEL.set
              \/ environ.LOG_LEVEL.value \in NotAnInteger \cup OutOfRange) =>
                 (config.log_level = 0 /\ config.log_level_name = "SILENT")

C21_Witness ==
    /\ environ = [LOG_FILE |-> NotSet, LOG_LEVEL |-> SetTo("3")]
    /\ Len(loggers) = 1
    /\ loggers[1].log_level = 0
    /\ config = [log_file |-> None, log_level |-> 0, log_level_name |-> "SILENT"]

\* C22: log_info and log_debug never raise.  With LOG_FILE unset nothing is
\* written, whatever the level; with a LOG_FILE whose file or directory
\* cannot be made or written every call returns normally, nothing is
\* written, and the configuration of the logger stays what the constructor
\* read.
C22_LoggingNeverRaises ==
    /\ pc = "logging"
    /\ raised = "none"
    /\ environ.LOG_FILE # SetTo(LogPath) => files.log = NoLog
    /\ \A k \in 1..Len(loggers) :
          /\ loggers[k].log_file_path =
                 (IF environ.LOG_FILE.set THEN environ.LOG_FILE ELSE None)
          /\ environ.LOG_LEVEL \in {SetTo("0"), SetTo("1"), SetTo("2")} =>
                 LogLevelName(loggers[k].log_level) =
                     (CASE environ.LOG_LEVEL.value = "0" -> "SILENT"
                        [] environ.LOG_LEVEL.value = "1" -> "INFO"
                        [] environ.LOG_LEVEL.value = "2" -> "DEBUG")

C22_Witness ==
    /\ pc = "logging"
    /\ environ = [LOG_FILE |-> SetTo(BadPath), LOG_LEVEL |-> SetTo("2")]
    /\ Len(loggers) = 1
    /\ Len(calls) = 2
    /\ calls[1].level_name = "INFO" /\ calls[2].level_name = "DEBUG"
    /\ raised = "none"
    /\ files.log = NoLog
    /\ loggers[1].log_file_path = SetTo(BadPath)
    /\ loggers[1].log_level = 2

----------------------------------------------------------------------------
(* Independence of the scores of a file's urls, checked under Spec          *)

\* what the loop can record for the url u scored on its own
EntriesOf(u) ==
    IF u.category = "INVALID"
    THEN {invalid_entry(u, latency) : latency \in Latencies}
    ELSE {ndjson_entry(u, score_url(u.link, u.category, d).result, latency) :
            d \in {e \in SampleResponses(u.category) :
                     score_url(u.link, u.category, e).raised = "none"},
            latency \in Latencies}

----------------------------------------------------------------------------
(* The floor of the rule scores and the empty response, under SpecScore    *)

\* make_request returned a value the scorer takes as data ("if not data" fails)
DataFetched == data # NoData /\ ~NotData(data)

\* C24: whenever make_request returned data for a link whose name parsed and
\* score_url returns, the score is at least 2.0, whatever the fields hold,
\* and the result is neither the fallback nor an error result.
C24_ScoreAtLeastBase ==
    Returned /\ DataFetched =>
        /\ category \in {"DATASET", "MODEL", "CODE"}
        /\ result.score >= 2000
        /\ "fallback" \notin DOMAIN result.details
        /\ "error" \notin DOMAIN result.details

\* a repository whose response holds no field a bonus is given for
C24_Witness ==
    /\ Returned /\ DataFetched /\ category = "CODE"
    /\ data.f = [stargazers_count |-> Num(0), forks_count |-> Num(10),
                 description |-> Str(0), license |-> Null, language |-> Str(0)]
    /\ result.score = 2000

\* the response None of a failed request
FailedFetch == [kind |-> "None", f |-> NoFields]

\* C25: a request that succeeds with the empty object {} gives the result the
\* failed request gives for the same link: the fallback score of the category
\* with fallback true, and none of the details the rules compute.
C25_EmptyObjectIsFallback ==
    (pc \in {"returned", "raised"} /\ data.kind = "empty_object") =>
        /\ Returned
        /\ result = score_url_resume(url, category, name, FailedFetch).result
        /\ result.score = (IF category = "DATASET" THEN 0 ELSE 2000)
        /\ "fallback" \in DOMAIN result.details
        /\ result.details.fallback = TRUE
        /\ DOMAIN result.details = {"name", "fallback", "size_score"}

C25_Witness ==
    /\ Returned /\ data.kind = "empty_object" /\ category = "MODEL"
    /\ name = <<"a", "/", "a">>
    /\ result.score = 2000 /\ result.details.fallback = TRUE
    /\ "downloads" \notin DOMAIN result.details

----------------------------------------------------------------------------
(* The size estimates the results are built from, under SpecScore          *)

\* the size-fitness values the specification states for the 500 MB default
StatedUnknownMap ==
    [raspberry_pi |-> 0, jetson_nano |-> 0, desktop_pc |-> 90, aws_server |-> 99]

AllFit == [h \in Hardware |-> 100]

\* C27: for every link whose name parses, whether make_request then returns
\* data or not, the size estimate is 0 MB and the size-fitness map of the
\* result is 1.0 for all four hardware classes.
C27_ParsedNameFitsAll ==
    (Returned /\ requests # <<>>) =>
        /\ estimate_model_size(name, "model") = 0
        /\ result.details.size_score = AllFit

----------------------------------------------------------------------------
(* The upper clamp of the rule scores, under SpecScore                     *)

\* the sum of the rules for the object fetched, before min(score, 10.0)
UnclampedTotal ==
    IF category = "DATASET" THEN
        dataset_rule_total(ValueOf(data.f.downloads), ValueOf(data.f.likes),
                           Truthy(data.f.description))
    ELSE IF category = "MODEL" THEN
        model_rule_total(ValueOf(data.f.downloads), ValueOf(data.f.likes),
                         Truthy(data.f.cardData), Truthy(data.f.pipeline_tag))
    ELSE
        code_rule_total(ValueOf(data.f.stargazers_count),
                        ValueOf(data.f.forks_count), Truthy(data.f.description),
                        Truthy(data.f.license), Truthy(data.f.language))

\* the largest rule totals the specification states
StatedCeiling == [DATASET |-> 9000, MODEL |-> 10000, CODE |-> 10000]

\* C28: for every object fetched after which score_url returns, the rule total
\* is at most 9.0 for a dataset, 10.0 for a model and 10.0 for code, and the
\* score returned is the rule total: min(score, 10.0) changes nothing.
C28_ClampNeverActs ==
    (Returned /\ data.kind = "object") =>
        /\ UnclampedTotal <= StatedCeiling[category]
        /\ result.score = UnclampedTotal

\* a model with every bonus: the rule total is the ceiling itself
C28_Witness ==
    /\ Returned /\ category = "MODEL"
    /\ data.kind = "object"
    /\ data.f = [downloads |-> Num(100001), likes |-> Num(101),
                 cardData |-> Obj(2), pipeline_tag |-> Str(9)]
    /\ UnclampedTotal = 10000
    /\ result.score = 10000

----------------------------------------------------------------------------
(* The order of the hardware classes, under SpecSize                       *)

\* C29: for every size the rounded fitness values are ordered by the capacity
\* of the class: raspberry_pi <= jetson_nano <= desktop_pc <= aws_server.
C29_FitnessOrderedByCapacity ==
    pc = "size_done" =>
        /\ size_score.raspberry_pi <= size_score.jetson_nano
        /\ size_score.jetson_nano <= size_score.desktop_pc
        /\ size_score.desktop_pc <= size_score.aws_server

\* a size for which the four values differ
C29_Witness ==
    /\ pc = "size_done"
    /\ model_size_mb = 150
    /\ size_score.raspberry_pi = 25
    /\ size_score.jetson_nano = 70
    /\ size_score.desktop_pc = 97
    /\ size_score.aws_server = 100

----------------------------------------------------------------------------
(* The category of a link and the name the scorer parses, under SpecScore  *)

\* score_url is given the category determine_category gives the link
ClassifiedAs(c) == category = c /\ determine_category(url) = c

\* after the host the link holds one segment: no "/" is followed by a symbol
\* other than "/"
OneSegment(p) ==
    \A k \in 1..Len(p) : p[k] = "/" => \A j \in k..Len(p) : p[j] = "/"

\* the result of a scorer whose regex found no name
InvalidUrlResult ==
    /\ Returned
    /\ result.score = 0
    /\ "error" \in DOMAIN result.details
    /\ result.details.error = "Invalid URL"
    /\ requests = <<>>

\* C30: every link determine_category classifies as DATASET has its name
\* parsed by score_dataset (the request is made, the result is never the
\* 'Invalid URL' result), while a link classified MODEL or CODE with one
\* segment after the host gets score 0.0 with error 'Invalid URL'.
C30_ClassificationAndParsing ==
    pc # "call" =>
        /\ ClassifiedAs("DATASET") =>
              /\ requests # <<>>
              /\ name = DatasetNameMatch(url).group1
              /\ name # <<>>
              /\ ~InvalidUrlResult
        /\ ((ClassifiedAs("MODEL") \/ ClassifiedAs("CODE")) /\ OneSegment(url.path)) =>
              InvalidUrlResult

\* https://github.com/a/ is classified CODE and scored as an invalid link
C30_Witness ==
    /\ ClassifiedAs("CODE")
    /\ url = [head |-> GH, path |-> <<"a", "/">>]
    /\ InvalidUrlResult
    /\ result.category = "CODE"

----------------------------------------------------------------------------
(* Properties of the reporting loop, checked under Spec                    *)

ReportKeys == {"name", "category", "net_score", "url", "size_score"}

\* C10: calculate_scores writes one newline-delimited JSON record per input
\* url, in order, and every record holds at least name, category, net_score,
\* url and the size-fitness map, also for the urls whose score is 0.0 and for
\* the urls of category Invalid.
C10_OneRecordPerUrl ==
    pc = "done" =>
        /\ Len(scores_ndjson) = Len(urls)
        /\ \A k \in 1..Len(scores_ndjson) :
              /\ ReportKeys \subseteq DOMAIN scores_ndjson[k].json
              /\ k <= Len(urls) => scores_ndjson[k].json.url = urls[k].link

====
